---- MODULE Spec2Model ----
(***************************************************************************)
(* Model of BRAIN/AI/TEXT/STREAM/deepInfra_TEXT.py: generate, the          *)
(* streaming sentence segmenter _stream_response and the non-streaming     *)
(* fetcher _get_full_response.                                             *)
(*                                                                         *)
(* A Python string is a sequence of tokens.  A token is one character of   *)
(* Alphabet, or one of the multi-character pieces of a network line that   *)
(* the code tells apart: the "data:" prefix, the "[DONE]" marker and the   *)
(* JSON text around a content value.                                       *)
(***************************************************************************)
EXTENDS Integers, Sequences, FiniteSets, TLC

(***************************************************************************)
(* Bounds of the model.                                                    *)
(***************************************************************************)
MaxLines == 3
PairMaxLines == 2
SegMaxLines == 4
MarkerMaxLines == 2

Calls == {1, 2}

(***************************************************************************)
(* Tokens.                                                                 *)
(***************************************************************************)
SP == " "
DATA == "data:"
DONE == "[DONE]"
OPEN_DELTA == "{choices:[{delta:{content:'"
OPEN_MSG == "{choices:[{message:{content:'"
CLOSE == "'}}]}"
NULL_DELTA == "{choices:[{delta:{content:null}}]}"
ROLE_DELTA == "{choices:[{delta:{role:'assistant'}}]}"
NULL_MSG == "{choices:[{message:{content:null}}]}"
ROLE_MSG == "{choices:[{message:{role:'assistant'}}]}"
EMPTY_CHOICES == "{choices:[]}"
NULL_CHOICES == "{choices:null}"
NO_CHOICES == "{error:'overloaded'}"
HTML == "<html>"

Lower == {"a"}
Upper == {"A"}
Digit == {"1"}
Word == Lower \cup Upper \cup Digit \cup {"_"}
Space == {SP}
Alphabet == {"a", "A", ".", "?", SP}

(***************************************************************************)
(* Python string helpers.                                                  *)
(***************************************************************************)
Last(s) == s[Len(s)]

Front(s) == SubSeq(s, 1, Len(s) - 1)

Contains(s, t) ==
    \E k \in 0..(Len(s) - Len(t)) : SubSeq(s, k + 1, k + Len(t)) = t

RECURSIVE LStrip(_)
LStrip(s) ==
    IF s = <<>> THEN s
    ELSE IF Head(s) \in Space THEN LStrip(Tail(s)) ELSE s

RECURSIVE RStrip(_)
RStrip(s) ==
    IF s = <<>> THEN s
    ELSE IF Last(s) \in Space THEN RStrip(Front(s)) ELSE s

\* a mistaken trim of the left end only, as str.lstrip() does
StripLeftOnly(s) == LStrip(s)

\* str.strip()
Strip(s) == RStrip(LStrip(s))

\* re.sub("data:", "", value): every occurrence of the prefix is removed
ReSubData(value) == SelectSeq(value, LAMBDA t : t # DATA)

(***************************************************************************)
(* json.loads and the subscript path ["choices"][0][key]["content"].       *)
(* A parsed document records how far the path can be followed.             *)
(***************************************************************************)
Doc(choices, key, content, text) ==
    [choices |-> choices, key |-> key, content |-> content, text |-> text]

NoDoc == Doc("absent", "none", "absent", <<>>)

JsonConstants ==
    {NULL_DELTA, ROLE_DELTA, NULL_MSG, ROLE_MSG, EMPTY_CHOICES, NULL_CHOICES, NO_CHOICES}

DocOfConstant(t) ==
    CASE t = NULL_DELTA -> Doc("one", "delta", "null", <<>>)
      [] t = ROLE_DELTA -> Doc("one", "delta", "absent", <<>>)
      [] t = NULL_MSG -> Doc("one", "message", "null", <<>>)
      [] t = ROLE_MSG -> Doc("one", "message", "absent", <<>>)
      [] t = EMPTY_CHOICES -> Doc("empty", "none", "absent", <<>>)
      [] t = NULL_CHOICES -> Doc("null", "none", "absent", <<>>)
      [] OTHER -> NoDoc

\* the tokens between the quotes of a JSON string: anything but a piece of JSON
IsText(s) == \A k \in 1..Len(s) : s[k] \notin {OPEN_DELTA, OPEN_MSG, CLOSE}

\* json.loads(s): leading and trailing whitespace is skipped; anything that is
\* not one JSON document raises JSONDecodeError
JsonLoads(s) ==
    LET b == Strip(s) IN
    IF Len(b) = 1 /\ b[1] \in JsonConstants
        THEN [exc |-> "none", doc |-> DocOfConstant(b[1])]
    ELSE IF Len(b) >= 2 /\ Head(b) \in {OPEN_DELTA, OPEN_MSG} /\ Last(b) = CLOSE
            /\ IsText(SubSeq(b, 2, Len(b) - 1))
        THEN [exc |-> "none",
              doc |-> Doc("one",
                          IF Head(b) = OPEN_DELTA THEN "delta" ELSE "message",
                          "str", SubSeq(b, 2, Len(b) - 1))]
    ELSE [exc |-> "JSONDecodeError", doc |-> NoDoc]

\* doc["choices"][0][key]["content"]
GetContent(doc, key) ==
    CASE doc.choices = "absent" -> [exc |-> "KeyError", none |-> FALSE, val |-> <<>>]
      [] doc.choices = "null" -> [exc |-> "TypeError", none |-> FALSE, val |-> <<>>]
      [] doc.choices = "empty" -> [exc |-> "IndexError", none |-> FALSE, val |-> <<>>]
      [] doc.key # key -> [exc |-> "KeyError", none |-> FALSE, val |-> <<>>]
      [] doc.content = "absent" -> [exc |-> "KeyError", none |-> FALSE, val |-> <<>>]
      [] doc.content = "null" -> [exc |-> "none", none |-> TRUE, val |-> <<>>]
      [] OTHER -> [exc |-> "none", none |-> FALSE, val |-> doc.text]

(***************************************************************************)
(* The sentence boundary rule                                              *)
(*   re.split(r'(?<!\b\w\.)(?<![A-Z][a-z]\.)(?<=\.|\?)\s', partial_sentence) *)
(***************************************************************************)
\* (?<=\.|\?) at position p: the character before p is '.' or '?'
EndsSentence(s, p) == p > 1 /\ s[p - 1] \in {".", "?"}

\* a mistaken first guard that knows lowercase letters only: (?<!\b[a-z]\.)
LoneLowerGuard(s, p) ==
    /\ p > 2
    /\ s[p - 1] = "."
    /\ s[p - 2] \in Lower
    /\ (p = 3 \/ s[p - 3] \notin Word)

\* (?<!\b\w\.) fails (the guard applies) when a word character that starts a
\* word stands directly before the '.'
LoneWordGuard(s, p) ==
    /\ p > 2
    /\ s[p - 1] = "."
    /\ s[p - 2] \in Word
    /\ (p = 3 \/ s[p - 3] \notin Word)

\* a mistaken second guard with the two classes swapped: (?<![a-z][A-Z]\.)
CapitalisedGuardSwapped(s, p) ==
    /\ p > 3
    /\ s[p - 1] = "."
    /\ s[p - 2] \in Upper
    /\ s[p - 3] \in Lower

\* (?<![A-Z][a-z]\.) fails (the guard applies) after upper, lower, '.'
CapitalisedGuard(s, p) ==
    /\ p > 3
    /\ s[p - 1] = "."
    /\ s[p - 2] \in Lower
    /\ s[p - 3] \in Upper

IsSplitPoint(s, p) ==
    /\ p \in 1..Len(s)
    /\ s[p] \in Space
    /\ EndsSentence(s, p)
    /\ ~LoneWordGuard(s, p)
    /\ ~CapitalisedGuard(s, p)

RECURSIVE SplitFrom(_, _, _)
SplitFrom(s, start, p) ==
    IF p > Len(s) THEN <<SubSeq(s, start, Len(s))>>
    ELSE IF IsSplitPoint(s, p)
        THEN <<SubSeq(s, start, p - 1)>> \o SplitFrom(s, p + 1, p + 1)
    ELSE SplitFrom(s, start, p + 1)

RECURSIVE SplitConsuming(_, _, _)
SplitConsuming(s, start, p) ==
    IF p > Len(s) THEN <<SubSeq(s, start, Len(s))>>
    ELSE IF IsSplitPoint(s, p)
        THEN <<SubSeq(s, start, p - 2)>> \o SplitConsuming(s, p + 1, p + 1)
    ELSE SplitConsuming(s, start, p + 1)

\* a mistaken pattern that matches the punctuation instead of looking behind
\* for it, so that the split swallows it
ReSplitConsuming(s) == SplitConsuming(s, 1, 1)

\* a mistaken split that drops empty pieces, as str.split() without a separator
\* does
ReSplitDroppingEmpty(s) ==
    LET pieces == SelectSeq(SplitFrom(s, 1, 1), LAMBDA piece : piece # <<>>) IN
    IF pieces = <<>> THEN <<s>> ELSE pieces

\* re.split: the pieces between the split points, never an empty list
ReSplit(s) == SplitFrom(s, 1, 1)

(***************************************************************************)
(* Network lines and response bodies the model draws its inputs from.      *)
(***************************************************************************)
Prefix == <<DATA, SP>>

DeltaLine(t) == Prefix \o <<OPEN_DELTA>> \o t \o <<CLOSE>>

Fragments == {<<>>} \cup {<<c>> : c \in Alphabet}

DeltaLines == {DeltaLine(t) : t \in Fragments}

StreamLines ==
    DeltaLines \cup
    {<<>>, Prefix \o <<DONE>>, Prefix \o <<NULL_DELTA>>, Prefix \o <<ROLE_DELTA>>,
     Prefix \o <<EMPTY_CHOICES>>, Prefix \o <<NULL_CHOICES>>, Prefix \o <<NO_CHOICES>>,
     Prefix \o <<HTML>>}

PairLines ==
    {DeltaLine(<<"a">>), DeltaLine(<<"?">>), DeltaLine(<<SP>>), Prefix \o <<HTML>>}

\* fragments for the segmenter on its own: every character class of the
\* boundary rule, and one fragment that holds two whole sentences
SegAlphabet == {"a", "A", "1", ".", "?", SP}

SegFragments ==
    {<<>>} \cup {<<c>> : c \in SegAlphabet} \cup {<<"a", "a", ".", SP, "a", "?", SP>>}

SegLines == {DeltaLine(t) : t \in SegFragments}

\* fragments whose text holds the line prefix or the end marker
MarkerFragments ==
    {<<"a">>, <<DONE>>, <<"a", DONE>>, <<"?", SP, DATA>>}

MarkerLines == {DeltaLine(t) : t \in MarkerFragments}

Bodies ==
    {<<OPEN_MSG>> \o t \o <<CLOSE>> : t \in {<<>>, <<"A", "a">>, <<"a", ".", SP>>}} \cup
    {<<HTML>>, <<EMPTY_CHOICES>>, <<NULL_CHOICES>>, <<NO_CHOICES>>, <<ROLE_MSG>>,
     <<NULL_MSG>>, <<OPEN_DELTA, "a", CLOSE>>}

StatusCodes == {200, 404, 500}

\* Response.raise_for_status raises HTTPError for a 4xx or 5xx status
IsHttpError(status) == status >= 400 /\ status < 600

(***************************************************************************)
(* Python values: None, or a string.                                       *)
(***************************************************************************)
Unset == [kind |-> "unset", val |-> <<>>]
NoneVal == [kind |-> "None", val |-> <<>>]
Str(s) == [kind |-> "str", val |-> s]

Unbound == [bound |-> FALSE, status |-> 0, text |-> <<>>]
Response(status, text) == [bound |-> TRUE, status |-> status, text |-> text]

SystemMessage == [role |-> "system", content |-> "system_prompt"]
UserMessage == [role |-> "user", content |-> "question"]
AssistantMessage == [role |-> "assistant", content |-> "answer"]

\* the history the caller passes in: lines 139-143
CallerHistory == <<UserMessage, AssistantMessage>>

(***************************************************************************)
(* State.                                                                  *)
(***************************************************************************)
VARIABLES
    conversation_history, \* the caller's list, passed to every call
    pc,                   \* where each invocation stands
    stream,               \* the stream argument of each invocation
    got,                  \* what the call expression generate(...) gave the caller
    sent,                 \* payload["messages"] as transmitted by the POST
    response,             \* the local variable response
    nlines,               \* number of lines of the response body
    seen,                 \* lines read from response.iter_lines so far
    partial_sentence,     \* the pending buffer, one per generator frame
    sentences,            \* result of re.split while the for loop over it runs
    k,                    \* index in sentences of the sentence last yielded
    emitted,              \* values yielded by the generator, in order
    conn,                 \* transport connection: "none", "open", "released"
    closed,               \* GeneratorExit has been thrown into the generator
    raised,               \* exception that reached the caller, or "none"
    returned,             \* value of the return statement (StopIteration.value)
    exitpath,             \* how the invocation ended
    turn                  \* invocation that took the last step

vars ==
    <<conversation_history, pc, stream, got, sent, response, nlines, seen,
      partial_sentence, sentences, k, emitted, conn, closed, raised, returned,
      exitpath, turn>>

\* a mistaken buffer kept outside the function, one for all invocations
SharedFrame(i) == 1

\* line 83: partial_sentence is a local of the generator frame of invocation i
Frame(i) == i

Init ==
    /\ conversation_history = CallerHistory
    /\ pc = [i \in Calls |-> "idle"]
    /\ stream = [i \in Calls |-> TRUE]
    /\ got = [i \in Calls |-> "nothing"]
    /\ sent = [i \in Calls |-> <<>>]
    /\ response = [i \in Calls |-> Unbound]
    /\ nlines = [i \in Calls |-> 0]
    /\ seen = [i \in Calls |-> <<>>]
    /\ partial_sentence = [i \in Calls |-> <<>>]
    /\ sentences = [i \in Calls |-> <<>>]
    /\ k = [i \in Calls |-> 0]
    /\ emitted = [i \in Calls |-> <<>>]
    /\ conn = [i \in Calls |-> "none"]
    /\ closed = [i \in Calls |-> FALSE]
    /\ raised = [i \in Calls |-> "none"]
    /\ returned = [i \in Calls |-> Unset]
    /\ exitpath = [i \in Calls |-> "none"]
    /\ turn = 0

(***************************************************************************)
(* One line of the response fed to the pending buffer (lines 87-93 and 95).*)
(* fed: the line was a content delta and was appended; sentences is then    *)
(* the result of re.split on the grown buffer.                             *)
(***************************************************************************)
\* a mistaken line 88 that knows no end-of-stream marker
IsProcessedWithoutMarker(modified_value) == modified_value # <<>>

\* line 88: modified_value and "[DONE]" not in modified_value
IsProcessed(modified_value) ==
    /\ modified_value # <<>>
    /\ \A n \in 1..Len(modified_value) : modified_value[n] # DONE

\* a mistaken handler that names the one exception it expects: except KeyError
CaughtKeyErrorOnly(exc) == exc = "KeyError"

\* line 99: the bare except catches whatever lines 91-98 raise
Caught(exc) == exc \in {"KeyError", "IndexError", "TypeError"}

Feed(buf, value) ==
    LET modified_value == ReSubData(value)
        skip == [exc |-> "none", fed |-> FALSE, buf |-> buf, sentences |-> <<buf>>]
    IN  IF ~IsProcessed(modified_value)
            THEN skip
        ELSE LET json_modified_value == JsonLoads(modified_value) IN
             IF json_modified_value.exc # "none"
                 THEN [skip EXCEPT !.exc = json_modified_value.exc]
             ELSE LET content == GetContent(json_modified_value.doc, "delta") IN
                  IF content.exc # "none" /\ ~Caught(content.exc)
                      THEN [skip EXCEPT !.exc = content.exc]
                  ELSE IF content.exc # "none" \/ content.none
                      THEN skip
                  ELSE [exc |-> "none", fed |-> TRUE,
                        buf |-> buf \o content.val,
                        sentences |-> ReSplit(buf \o content.val)]

\* a yield: the value goes out; a generator that yields after GeneratorExit
\* makes close() raise RuntimeError("generator ignored GeneratorExit")
Yield(i, value) ==
    /\ emitted' = [emitted EXCEPT ![i] = Append(@, value)]
    /\ raised' = [raised EXCEPT ![i] = IF closed[i] THEN "RuntimeError" ELSE @]

\* a mistaken handler that reports the failure without the body
RequestErrorResultGeneric(resp) ==
    <<"An error occurred while fetching the response.">>

\* lines 119-122: the value returned for a RequestException
RequestErrorResult(resp) ==
    IF resp.bound THEN <<"Response content: ">> \o resp.text
    ELSE <<"An error occurred while fetching the response.">>

\* lines 127-130: the value returned for a KeyError
KeyErrorResult(resp) ==
    IF resp.bound THEN <<"Error parsing response: ">> \o resp.text
    ELSE <<"An error occurred while parsing the response.">>

\* a mistaken line 65 that assigns to index 0 instead of inserting there
InsertSystemPromptOverwriting(history) == <<SystemMessage>> \o Tail(history)

\* line 65
InsertSystemPrompt(history) == <<SystemMessage>> \o history

(***************************************************************************)
(* generate(...) is called: a generator function, so the call only makes   *)
(* the generator object; no line of the body has run.                      *)
(***************************************************************************)
Generate(i, st) ==
    /\ pc[i] = "idle"
    /\ pc' = [pc EXCEPT ![i] = "created"]
    /\ stream' = [stream EXCEPT ![i] = st]
    /\ got' = [got EXCEPT ![i] = "generator"]
    /\ turn' = i
    /\ UNCHANGED <<conversation_history, sent, response, nlines, seen, partial_sentence,
                   sentences, k, emitted, conn, closed, raised, returned, exitpath>>

(***************************************************************************)
(* First next() of a streaming call: lines 65-77 and 83-85.  The POST      *)
(* either raises (no response object) or gives a response of n lines.      *)
(***************************************************************************)
StreamResponse(i, ok, status, n) ==
    /\ pc[i] = "created"
    /\ stream[i]
    /\ conversation_history' = InsertSystemPrompt(conversation_history)
    /\ partial_sentence' = [partial_sentence EXCEPT ![Frame(i)] = <<>>]
    /\ turn' = i
    /\ IF ok
         THEN /\ sent' = [sent EXCEPT ![i] = conversation_history']
              /\ response' = [response EXCEPT ![i] = Response(status, <<>>)]
              /\ nlines' = [nlines EXCEPT ![i] = n]
              /\ conn' = [conn EXCEPT ![i] = "open"]
              /\ pc' = [pc EXCEPT ![i] = "loop"]
              /\ UNCHANGED <<raised, exitpath>>
         ELSE \* line 109 reads the unbound local response
              /\ raised' = [raised EXCEPT ![i] = "UnboundLocalError"]
              /\ exitpath' = [exitpath EXCEPT ![i] = "postfail"]
              /\ pc' = [pc EXCEPT ![i] = "done"]
              /\ UNCHANGED <<sent, response, nlines, conn>>
    /\ UNCHANGED <<stream, got, seen, sentences, k, emitted, closed, returned>>

(***************************************************************************)
(* One turn of the for loop of line 86 with the next line of the response. *)
(***************************************************************************)
IterLine(i, value) ==
    /\ pc[i] = "loop"
    /\ Len(seen[i]) < nlines[i]
    /\ seen' = [seen EXCEPT ![i] = Append(@, value)]
    /\ turn' = i
    /\ LET f == Feed(partial_sentence[Frame(i)], value) IN
       IF f.exc # "none"
         THEN \* line 89 raises outside the inner try: lines 104-105
              /\ pc' = [pc EXCEPT ![i] = "done"]
              /\ exitpath' = [exitpath EXCEPT ![i] = "malformed"]
              /\ returned' = [returned EXCEPT ![i] = NoneVal]
              /\ UNCHANGED <<partial_sentence, sentences, k, emitted, raised>>
       ELSE IF f.fed /\ Len(f.sentences) > 1
         THEN \* line 97, first complete sentence
              /\ partial_sentence' = [partial_sentence EXCEPT ![Frame(i)] = f.buf]
              /\ sentences' = [sentences EXCEPT ![i] = f.sentences]
              /\ k' = [k EXCEPT ![i] = 1]
              /\ Yield(i, Strip(f.sentences[1]))
              /\ pc' = [pc EXCEPT ![i] = "yield97"]
              /\ UNCHANGED <<exitpath, returned>>
       ELSE IF f.fed
         THEN \* line 98 with no complete sentence
              /\ partial_sentence' = [partial_sentence EXCEPT ![Frame(i)] = Last(f.sentences)]
              /\ UNCHANGED <<pc, sentences, k, emitted, raised, exitpath, returned>>
       ELSE UNCHANGED <<pc, partial_sentence, sentences, k, emitted, raised, exitpath,
                        returned>>
    /\ UNCHANGED <<conversation_history, stream, got, sent, response, nlines, conn, closed>>

(***************************************************************************)
(* The consumer asks for the next value while the generator is suspended   *)
(* at line 97: the next complete sentence, or line 98 and back to line 86. *)
(***************************************************************************)
NextSentence(i) ==
    /\ pc[i] = "yield97"
    /\ ~closed[i]
    /\ turn' = i
    /\ IF k[i] + 1 < Len(sentences[i])
         THEN /\ k' = [k EXCEPT ![i] = @ + 1]
              /\ Yield(i, Strip(sentences[i][k[i] + 1]))
              /\ UNCHANGED <<pc, partial_sentence, sentences>>
         ELSE /\ partial_sentence' = [partial_sentence EXCEPT ![Frame(i)] = Last(sentences[i])]
              /\ pc' = [pc EXCEPT ![i] = "loop"]
              /\ UNCHANGED <<k, sentences, emitted, raised>>
    /\ UNCHANGED <<conversation_history, stream, got, sent, response, nlines, seen, conn,
                   closed, returned, exitpath>>

(***************************************************************************)
(* The line sequence is exhausted: lines 101-102.  The body has been read  *)
(* to its end, which hands the connection back.                            *)
(***************************************************************************)
IterEnd(i) ==
    /\ pc[i] = "loop"
    /\ Len(seen[i]) = nlines[i]
    /\ conn' = [conn EXCEPT ![i] = "released"]
    /\ turn' = i
    /\ IF partial_sentence[Frame(i)] # <<>>
         THEN /\ Yield(i, Strip(partial_sentence[Frame(i)]))
              /\ pc' = [pc EXCEPT ![i] = "yield102"]
              /\ UNCHANGED <<exitpath, returned>>
         ELSE /\ pc' = [pc EXCEPT ![i] = "done"]
              /\ exitpath' = [exitpath EXCEPT ![i] = "exhausted"]
              /\ returned' = [returned EXCEPT ![i] = NoneVal]
              /\ UNCHANGED <<emitted, raised>>
    /\ UNCHANGED <<conversation_history, stream, got, sent, response, nlines, seen,
                   partial_sentence, sentences, k, closed>>

\* the consumer asks for the next value after the final sentence of line 102
FinishAfterFlush(i) ==
    /\ pc[i] = "yield102"
    /\ ~closed[i]
    /\ pc' = [pc EXCEPT ![i] = "done"]
    /\ exitpath' = [exitpath EXCEPT ![i] = "exhausted"]
    /\ returned' = [returned EXCEPT ![i] = NoneVal]
    /\ turn' = i
    /\ UNCHANGED <<conversation_history, stream, got, sent, response, nlines, seen,
                   partial_sentence, sentences, k, emitted, conn, closed, raised>>

(***************************************************************************)
(* Reading the next line fails in the transport: lines 107-109.  text is   *)
(* what response.text gives of the body at that moment.                    *)
(***************************************************************************)
IterError(i, text) ==
    /\ pc[i] = "loop"
    /\ Len(seen[i]) < nlines[i]
    /\ response' = [response EXCEPT ![i].text = text]
    /\ conn' = [conn EXCEPT ![i] = "released"]
    /\ Yield(i, <<"Response content: ">> \o text)
    /\ pc' = [pc EXCEPT ![i] = "yield109"]
    /\ turn' = i
    /\ UNCHANGED <<conversation_history, stream, got, sent, nlines, seen, partial_sentence,
                   sentences, k, closed, returned, exitpath>>

\* the consumer asks for the next value after the error string of line 109
FinishAfterError(i) ==
    /\ pc[i] = "yield109"
    /\ ~closed[i]
    /\ pc' = [pc EXCEPT ![i] = "done"]
    /\ exitpath' = [exitpath EXCEPT ![i] = "transport"]
    /\ returned' = [returned EXCEPT ![i] = NoneVal]
    /\ turn' = i
    /\ UNCHANGED <<conversation_history, stream, got, sent, response, nlines, seen,
                   partial_sentence, sentences, k, emitted, conn, closed, raised>>

(***************************************************************************)
(* The consumer stops: close() (or dropping the generator) throws          *)
(* GeneratorExit in at the yield where the generator is suspended.  At     *)
(* line 97 the bare except of line 99 catches it and the loop goes on with *)
(* line 98 skipped; at lines 102 and 109 it leaves the generator.  A       *)
(* generator that has not started just ends.                               *)
(***************************************************************************)
Close(i) ==
    /\ pc[i] \in {"created", "yield97", "yield102", "yield109"}
    /\ closed' = [closed EXCEPT ![i] = TRUE]
    /\ turn' = i
    /\ IF pc[i] = "yield97"
         THEN /\ pc' = [pc EXCEPT ![i] = "loop"]
              /\ UNCHANGED exitpath
         ELSE /\ pc' = [pc EXCEPT ![i] = "done"]
              /\ exitpath' = [exitpath EXCEPT ![i] = "closed"]
    /\ UNCHANGED <<conversation_history, stream, got, sent, response, nlines, seen,
                   partial_sentence, sentences, k, emitted, conn, raised, returned>>

(***************************************************************************)
(* First next() of a non-streaming call: lines 65-74, 79 and the whole of  *)
(* _get_full_response.  The POST either raises or gives a response with a  *)
(* status and a body.  Response.json raises an error that is a             *)
(* RequestException in current releases of the HTTP library (newlib) and   *)
(* only a json.JSONDecodeError in older ones.                              *)
(***************************************************************************)
FullResponseOutcome(resp, ok, newlib) ==
    IF ~ok
        THEN \* line 119 reads the unbound local response
             [exc |-> "UnboundLocalError", val |-> Unset]
    ELSE IF IsHttpError(resp.status)
        THEN [exc |-> "none", val |-> Str(RequestErrorResult(resp))]
    ELSE LET parsed == JsonLoads(resp.text)
             content == GetContent(parsed.doc, "message")
         IN  IF parsed.exc # "none"
                 THEN IF newlib
                          THEN [exc |-> "none", val |-> Str(RequestErrorResult(resp))]
                          ELSE [exc |-> "none", val |-> NoneVal]
             ELSE IF content.exc = "KeyError"
                 THEN [exc |-> "none", val |-> Str(KeyErrorResult(resp))]
             ELSE IF content.exc # "none"
                 THEN [exc |-> content.exc, val |-> Unset]
             ELSE IF content.none
                 THEN [exc |-> "none", val |-> NoneVal]
             ELSE [exc |-> "none", val |-> Str(content.val)]

GetFullResponse(i, ok, status, body, newlib) ==
    /\ pc[i] = "created"
    /\ ~stream[i]
    /\ conversation_history' = InsertSystemPrompt(conversation_history)
    /\ turn' = i
    /\ LET resp == IF ok THEN Response(status, body) ELSE Unbound
           out == FullResponseOutcome(resp, ok, newlib)
       IN  /\ response' = [response EXCEPT ![i] = resp]
           /\ sent' = [sent EXCEPT ![i] = IF ok THEN conversation_history' ELSE @]
           /\ conn' = [conn EXCEPT ![i] = IF ok THEN "released" ELSE @]
           /\ raised' = [raised EXCEPT ![i] = out.exc]
           /\ returned' = [returned EXCEPT ![i] = out.val]
           /\ exitpath' = [exitpath EXCEPT ![i] = IF ok THEN "fetched" ELSE "postfail"]
    /\ pc' = [pc EXCEPT ![i] = "done"]
    /\ UNCHANGED <<stream, got, nlines, seen, partial_sentence, sentences, k, emitted,
                   closed>>

(***************************************************************************)
(* Specifications.  Spec: one invocation, streaming or not.  SpecPair: two *)
(* streaming invocations whose steps interleave in any order.              *)
(***************************************************************************)
Next ==
    \/ \E st \in BOOLEAN : Generate(1, st)
    \/ \E ok \in BOOLEAN, status \in StatusCodes, n \in 0..MaxLines :
           StreamResponse(1, ok, status, n)
    \/ \E value \in StreamLines : IterLine(1, value)
    \/ NextSentence(1)
    \/ IterEnd(1)
    \/ FinishAfterFlush(1)
    \/ \E text \in {<<>>, <<HTML>>} : IterError(1, text)
    \/ FinishAfterError(1)
    \/ Close(1)
    \/ \E ok \in BOOLEAN, status \in StatusCodes, body \in Bodies, newlib \in BOOLEAN :
           GetFullResponse(1, ok, status, body, newlib)

Spec == Init /\ [][Next]_vars

NextPair ==
    \E i \in Calls :
        \/ Generate(i, TRUE)
        \/ \E n \in 0..PairMaxLines : StreamResponse(i, TRUE, 200, n)
        \/ \E value \in PairLines : IterLine(i, value)
        \/ NextSentence(i)
        \/ IterEnd(i)
        \/ FinishAfterFlush(i)

SpecPair == Init /\ [][NextPair]_vars

\* SpecSeg: one streaming invocation whose lines are all content deltas, read
\* to the end by its consumer
NextSeg ==
    \/ Generate(1, TRUE)
    \/ \E n \in 0..SegMaxLines : StreamResponse(1, TRUE, 200, n)
    \/ \E value \in SegLines : IterLine(1, value)
    \/ NextSentence(1)
    \/ IterEnd(1)
    \/ FinishAfterFlush(1)

SpecSeg == Init /\ [][NextSeg]_vars

\* SpecMarker: two streaming invocations over content deltas whose text may
\* hold 'data:' or '[DONE]', each read to the end by its consumer
NextMarker ==
    \E i \in Calls :
        \/ Generate(i, TRUE)
        \/ \E n \in 0..MarkerMaxLines : StreamResponse(i, TRUE, 200, n)
        \/ \E value \in MarkerLines : IterLine(i, value)
        \/ NextSentence(i)
        \/ IterEnd(i)
        \/ FinishAfterFlush(i)

SpecMarker == Init /\ [][NextMarker]_vars

(***************************************************************************)
(* The frames of the specification, read off a raw line.                   *)
(***************************************************************************)
\* StreamEnd: empty after prefix removal, or holding the end-of-stream marker
StreamEnd(value) ==
    LET rest == ReSubData(value) IN
    rest = <<>> \/ \E n \in 1..Len(rest) : rest[n] = DONE

\* Malformed: not StreamEnd and not parseable as JSON
Malformed(value) ==
    /\ ~StreamEnd(value)
    /\ JsonLoads(ReSubData(value)).exc # "none"

\* the text of a ContentDelta frame as the server wrote it; <<>> for other frames
DeltaText(value) ==
    LET body == IF Len(value) >= 2 /\ SubSeq(value, 1, 2) = Prefix
                    THEN SubSeq(value, 3, Len(value)) ELSE value
        parsed == JsonLoads(body)
        content == GetContent(parsed.doc, "delta")
    IN  IF parsed.exc = "none" /\ content.exc = "none" /\ ~content.none
            THEN content.val ELSE <<>>

ContentDelta(value) ==
    LET parsed == JsonLoads(ReSubData(value))
        content == GetContent(parsed.doc, "delta")
    IN  ~StreamEnd(value) /\ parsed.exc = "none" /\ content.exc = "none" /\ ~content.none

RECURSIVE Received(_)
\* concatenation, in arrival order, of the ContentDelta text of the lines
Received(lines) ==
    IF lines = <<>> THEN <<>> ELSE DeltaText(Head(lines)) \o Received(Tail(lines))

RECURSIVE Rejoin(_)
\* the sentences with one whitespace put back after each
Rejoin(ss) ==
    IF ss = <<>> THEN <<>> ELSE Head(ss) \o <<SP>> \o Rejoin(Tail(ss))

\* a text without its whitespace
Squash(s) == SelectSeq(s, LAMBDA t : t \notin {SP})

\* invocation i has read its lines up to a line boundary, or to its end, with
\* the consumer still iterating
AtLineBoundary(i) ==
    /\ stream[i]
    /\ ~closed[i]
    /\ \/ pc[i] = "loop"
       \/ pc[i] = "done" /\ exitpath[i] = "malformed"

AtStreamEnd(i) ==
    /\ stream[i]
    /\ ~closed[i]
    /\ \/ pc[i] = "yield102"
       \/ pc[i] = "done" /\ exitpath[i] = "exhausted"

\* what the specification reconstructs: the sentences emitted, a whitespace
\* after each, then the pending buffer or, at stream end, the final sentence
Reconstructed(i) ==
    IF AtStreamEnd(i) /\ partial_sentence[i] # <<>>
        THEN Rejoin(Front(emitted[i])) \o Last(emitted[i])
    ELSE IF AtStreamEnd(i)
        THEN Rejoin(emitted[i])
    ELSE Rejoin(emitted[i]) \o partial_sentence[i]

(***************************************************************************)
(* C1: a Malformed line followed by further lines does not end the         *)
(* stream: while lines remain after it, the invocation has not finished.   *)
(* The code leaves the loop at the first Malformed line (line 89 is        *)
(* outside the inner try), so this is violated.                            *)
(***************************************************************************)
C1_MalformedDoesNotTerminate ==
    \A i \in Calls :
        (seen[i] # <<>> /\ Malformed(Last(seen[i])) /\ Len(seen[i]) < nlines[i])
            => pc[i] # "done"

FullReply(i) ==
    /\ ~stream[i]
    /\ pc[i] = "done"
    /\ response[i].bound
    /\ ~IsHttpError(response[i].status)
    /\ JsonLoads(response[i].text).exc = "none"
    /\ GetContent(JsonLoads(response[i].text).doc, "message").exc = "none"
    /\ ~GetContent(JsonLoads(response[i].text).doc, "message").none

C3_CallerReceivesString ==
    \A i \in Calls : FullReply(i) => got[i] = "string"

(***************************************************************************)
(* C4: after a whole-response failure (the POST raised, or the status is   *)
(* not 2xx) the finished call has raised nothing and has handed the caller *)
(* an error string: yielded by a streaming call, returned by a             *)
(* non-streaming one.  Violated: a failed POST leaves response unbound and *)
(* both handlers read it.                                                  *)
(***************************************************************************)
WholeResponseFailure(i) ==
    \/ exitpath[i] = "postfail"
    \/ response[i].bound /\ IsHttpError(response[i].status)

IsErrorString(s) ==
    /\ s # <<>>
    /\ Head(s) \in {"Response content: ", "Error parsing response: ",
                    "An error occurred while fetching the response.",
                    "An error occurred while parsing the response."}

C4_FailureReportedAsString ==
    \A i \in Calls :
        (pc[i] = "done" /\ ~closed[i] /\ WholeResponseFailure(i))
            => /\ raised[i] = "none"
               /\ stream[i] => \E n \in 1..Len(emitted[i]) : IsErrorString(emitted[i][n])
               /\ ~stream[i] => returned[i].kind = "str" /\ IsErrorString(returned[i].val)

(***************************************************************************)
(* C5: a non-streaming call whose 2xx body is not JSON, or lacks a step of *)
(* choices -> [0] -> message -> content, returns an error string and       *)
(* raises nothing.  Violated: only KeyError is caught.                     *)
(***************************************************************************)
BadBody(text) ==
    \/ JsonLoads(text).exc # "none"
    \/ GetContent(JsonLoads(text).doc, "message").exc # "none"

C5_BadBodyReportedAsString ==
    \A i \in Calls :
        (~stream[i] /\ pc[i] = "done" /\ response[i].bound
            /\ ~IsHttpError(response[i].status) /\ BadBody(response[i].text))
            => /\ raised[i] = "none"
               /\ returned[i].kind = "str"
               /\ IsErrorString(returned[i].val)

IsTrimOf(t, s) ==
    /\ t = <<>> \/ (Head(t) \notin Space /\ Last(t) \notin Space)
    /\ \E a \in 0..(Len(s) - Len(t)) :
           /\ SubSeq(s, a + 1, a + Len(t)) = t
           /\ \A n \in 1..Len(s) : (n <= a \/ n > a + Len(t)) => s[n] \in Space

C7_FlushAtStreamEnd ==
    [][\A i \in Calls :
          /\ (pc[i] = "loop" /\ Len(seen[i]) = nlines[i] /\ pc'[i] # "loop")
                => IF partial_sentence[i] # <<>>
                       THEN /\ Len(emitted'[i]) = Len(emitted[i]) + 1
                            /\ Front(emitted'[i]) = emitted[i]
                            /\ IsTrimOf(Last(emitted'[i]), partial_sentence[i])
                       ELSE emitted'[i] = emitted[i]
          /\ (pc[i] \in {"yield102", "done"}) => emitted'[i] = emitted[i]]_vars

\* the final sentence has gone out, shorter than the buffer it was trimmed from
C7_Witness ==
    /\ pc[1] = "yield102"
    /\ ~closed[1]
    /\ Len(seen[1]) = nlines[1]
    /\ Last(emitted[1]) # <<>>
    /\ Last(emitted[1]) # partial_sentence[1]

(***************************************************************************)
(* C8, as claimed: once a StreamEnd line (empty after prefix removal, or   *)
(* holding [DONE]) has been read, no line read later changes the pending   *)
(* buffer or emits a sentence.  Violated: the code skips the line and      *)
(* reads on.                                                               *)
(***************************************************************************)
SeenStreamEnd(i) == \E n \in 1..Len(seen[i]) : StreamEnd(seen[i][n])

C8_StreamEndEndsStream ==
    [][\A i \in Calls :
          (SeenStreamEnd(i) /\ seen'[i] # seen[i])
              => /\ partial_sentence'[i] = partial_sentence[i]
                 /\ emitted'[i] = emitted[i]]_vars

(***************************************************************************)
(* C8, amended: a StreamEnd line is skipped: reading it leaves the pending *)
(* buffer as it is, emits nothing and does not end the stream, which goes  *)
(* on to its next line.                                                    *)
(***************************************************************************)
C8_StreamEndIsSkipped ==
    [][\A i \in Calls :
          (seen'[i] # seen[i] /\ StreamEnd(Last(seen'[i])))
              => /\ partial_sentence'[i] = partial_sentence[i]
                 /\ emitted'[i] = emitted[i]
                 /\ pc'[i] = "loop"]_vars

\* a [DONE] line has been read with text pending, and a ContentDelta read after
\* it has grown the buffer
C8_Witness ==
    /\ pc[1] = "loop"
    /\ Len(seen[1]) = 3
    /\ ContentDelta(seen[1][1])
    /\ seen[1][2] = Prefix \o <<DONE>>
    /\ ContentDelta(seen[1][3])
    /\ Len(partial_sentence[1]) = 2

(***************************************************************************)
(* C9: a streaming call that has finished has released the connection its  *)
(* POST acquired.  Violated: the code never closes the response; only a    *)
(* body read to its end hands the connection back.                         *)
(***************************************************************************)
C9_ConnectionReleased ==
    \A i \in Calls :
        (stream[i] /\ pc[i] = "done" /\ conn[i] # "none") => conn[i] = "released"

(***************************************************************************)
(* C10: with two streaming invocations interleaved in any order, what each *)
(* has emitted and holds pending is what a lone run over its own lines     *)
(* emits and holds.                                                        *)
(***************************************************************************)
RECURSIVE StripAll(_)
StripAll(ss) ==
    IF ss = <<>> THEN <<>> ELSE <<Strip(Head(ss))>> \o StripAll(Tail(ss))

RECURSIVE Alone(_, _, _)
\* a lone run over lines, from buffer buf with out already emitted
Alone(lines, buf, out) ==
    IF lines = <<>> THEN [buf |-> buf, out |-> out]
    ELSE LET f == Feed(buf, Head(lines)) IN
         IF f.exc # "none" THEN [buf |-> buf, out |-> out]
         ELSE IF f.fed
             THEN Alone(Tail(lines), Last(f.sentences), out \o StripAll(Front(f.sentences)))
         ELSE Alone(Tail(lines), buf, out)

AloneFlushed(lines) ==
    LET a == Alone(lines, <<>>, <<>>) IN
    IF a.buf # <<>> THEN Append(a.out, Strip(a.buf)) ELSE a.out

IsPrefix(s, t) == Len(s) <= Len(t) /\ SubSeq(t, 1, Len(s)) = s

C10_SameAsAlone ==
    \A i \in Calls :
        LET a == Alone(seen[i], <<>>, <<>>) IN
        /\ pc[i] = "loop" => emitted[i] = a.out /\ partial_sentence[i] = a.buf
        /\ pc[i] = "yield97" => emitted[i] # <<>> /\ IsPrefix(emitted[i], a.out)
        /\ (pc[i] = "done" /\ exitpath[i] = "malformed") => emitted[i] = a.out
        /\ (pc[i] = "yield102" \/ (pc[i] = "done" /\ exitpath[i] = "exhausted"))
               => emitted[i] = AloneFlushed(seen[i])

\* both invocations have read two lines: one has emitted a sentence and holds
\* nothing, the other has emitted nothing and holds two characters
C10_Witness ==
    /\ pc[1] = "loop" /\ pc[2] = "loop"
    /\ Len(seen[1]) = 2 /\ Len(seen[2]) = 2
    /\ emitted[1] # <<>> /\ partial_sentence[1] = <<>>
    /\ emitted[2] = <<>> /\ Len(partial_sentence[2]) = 2

(***************************************************************************)
(* C11: a step changes the caller's history only by putting one system     *)
(* message in front of it, leaving every earlier message in place and in   *)
(* order; it does so only as the first step of an invocation, and what the *)
(* POST transmits is the history with that message in front.               *)
(***************************************************************************)
C11_HistoryOnlyPrepended ==
    [][/\ \/ conversation_history' = conversation_history
          \/ /\ Len(conversation_history') = Len(conversation_history) + 1
             /\ Head(conversation_history') = [role |-> "system", content |-> "system_prompt"]
             /\ \A n \in 1..Len(conversation_history) :
                    conversation_history'[n + 1] = conversation_history[n]
             /\ \E i \in Calls : pc[i] = "created" /\ pc'[i] # "created"
       /\ \A i \in Calls :
              sent'[i] # sent[i]
                  => /\ sent[i] = <<>>
                     /\ sent'[i] = conversation_history'
                     /\ conversation_history' # conversation_history]_vars

\* a call has ended on its error path with the system message in front of the
\* caller's two messages
C11_Witness ==
    /\ pc[1] = "done"
    /\ raised[1] = "UnboundLocalError"
    /\ Len(conversation_history) = 3
    /\ conversation_history[2] = UserMessage
    /\ conversation_history[3] = AssistantMessage

(***************************************************************************)
(* The split points of a buffer, read off the state: while the generator   *)
(* is suspended at line 97, partial_sentence is the buffer that was split  *)
(* and sentences its pieces; back at line 86 the buffer is a last piece,   *)
(* which holds no split point.                                             *)
(***************************************************************************)
RECURSIVE PieceEnd(_, _)
\* position of the whitespace that ends piece n
PieceEnd(ss, n) == IF n = 0 THEN 0 ELSE PieceEnd(ss, n - 1) + Len(ss[n]) + 1

PointsOf(ss) == {PieceEnd(ss, n) : n \in 1..(Len(ss) - 1)}

\* the rule as the specification words it: whitespace after '.' or '?', but not
\* after a '.' that follows a lone lowercase letter or an uppercase and a
\* lowercase letter
ClaimedSplitPoint(s, p) ==
    /\ s[p] = SP
    /\ p > 1
    /\ s[p - 1] \in {".", "?"}
    /\ ~(/\ s[p - 1] = "."
         /\ p > 2
         /\ s[p - 2] \in {"a"}
         /\ (p = 3 \/ s[p - 3] \notin {"a", "A", "1", "_"}))
    /\ ~(s[p - 1] = "." /\ p > 3 /\ s[p - 3] \in {"A"} /\ s[p - 2] \in {"a"})

\* the rule with the first guard as the pattern has it: any lone word character
\* (a letter of either case, a digit or an underscore)
AmendedSplitPoint(s, p) ==
    /\ s[p] = SP
    /\ p > 1
    /\ s[p - 1] \in {".", "?"}
    /\ ~(/\ s[p - 1] = "."
         /\ p > 2
         /\ s[p - 2] \in {"a", "A", "1", "_"}
         /\ (p = 3 \/ s[p - 3] \notin {"a", "A", "1", "_"}))
    /\ ~(s[p - 1] = "." /\ p > 3 /\ s[p - 3] \in {"A"} /\ s[p - 2] \in {"a"})

(***************************************************************************)
(* C12, as claimed: the split points of the pending buffer are exactly the *)
(* positions ClaimedSplitPoint gives; in particular the whitespace after a *)
(* lone uppercase letter or digit and '.' is one.  Violated: the first     *)
(* guard is \b\w\. and keeps 'A. ' and '1. ' whole.                        *)
(***************************************************************************)
C12_SplitPointsAsSpecified ==
    \A i \in Calls :
        LET buf == partial_sentence[i] IN
        /\ pc[i] = "yield97"
               => PointsOf(sentences[i]) = {p \in 1..Len(buf) : ClaimedSplitPoint(buf, p)}
        /\ pc[i] = "loop" => {p \in 1..Len(buf) : ClaimedSplitPoint(buf, p)} = {}

(***************************************************************************)
(* C12, amended: the split points of the pending buffer are exactly the    *)
(* whitespace characters that directly follow a '.' or '?', except after a *)
(* '.' preceded by a lone word character or by an uppercase letter and a   *)
(* lowercase letter.                                                       *)
(***************************************************************************)
C12_SplitPointsOfThePattern ==
    \A i \in Calls :
        LET buf == partial_sentence[i] IN
        /\ pc[i] = "yield97"
               => PointsOf(sentences[i]) = {p \in 1..Len(buf) : AmendedSplitPoint(buf, p)}
        /\ pc[i] = "loop" => {p \in 1..Len(buf) : AmendedSplitPoint(buf, p)} = {}

\* 'aa. a? 1. ' has been split after 'aa.' and after 'a?' and nowhere else
C12_Witness ==
    /\ pc[1] = "loop"
    /\ emitted[1] = << <<"a", "a", ".">>, <<"a", "?">> >>
    /\ partial_sentence[1] = <<"1", ".", SP>>

\* s ends at a '.' that follows a lone lowercase letter, or an uppercase letter
\* and a lowercase letter
EndsAtAbbreviation(s) ==
    LET n == Len(s) IN
    /\ n >= 2
    /\ s[n] = "."
    /\ \/ s[n - 1] = "a" /\ (n = 2 \/ s[n - 2] \notin {"a", "A", "1", "_"})
       \/ n >= 3 /\ s[n - 2] = "A" /\ s[n - 1] = "a"

(***************************************************************************)
(* C13: before stream end no emitted sentence, and no piece cut from the   *)
(* buffer, ends at a '.' preceded by a lone lowercase letter or by one     *)
(* uppercase and one lowercase letter, however the text was fragmented.    *)
(***************************************************************************)
C13_AbbreviationGuard ==
    \A i \in Calls :
        /\ pc[i] \in {"loop", "yield97"}
               => \A n \in 1..Len(emitted[i]) : ~EndsAtAbbreviation(emitted[i][n])
        /\ pc[i] = "yield97"
               => \A n \in 1..(Len(sentences[i]) - 1) : ~EndsAtAbbreviation(sentences[i][n])

\* 'Aa. ' arrived character by character and was kept whole in the buffer
C13_Witness ==
    /\ pc[1] = "loop"
    /\ Len(seen[1]) = 4
    /\ partial_sentence[1] = <<"A", "a", ".", SP>>
    /\ emitted[1] = <<>>

RECURSIVE SentencesOf(_, _, _)
\* the stretches of text that end right before a split point, in order
SentencesOf(text, start, p) ==
    IF p > Len(text) THEN <<>>
    ELSE IF AmendedSplitPoint(text, p)
        THEN <<SubSeq(text, start, p - 1)>> \o SentencesOf(text, p + 1, p + 1)
    ELSE SentencesOf(text, start, p + 1)

\* the text is a run of sentences, each closed by unguarded punctuation and a
\* whitespace, with nothing after the last whitespace
AllSentencesClosed(text) == text # <<>> /\ AmendedSplitPoint(text, Len(text))

(***************************************************************************)
(* C14: once a fresh stream has been fed a text made of closed sentences   *)
(* only, every sentence has been emitted trimmed and in order, the pending *)
(* buffer is empty, and the end of the stream emits nothing more.          *)
(***************************************************************************)
C14_ClosedSentencesAllEmitted ==
    \A i \in Calls :
        LET text == Received(seen[i])
            expected == SentencesOf(text, 1, 1)
        IN  (pc[i] \in {"loop", "yield102", "done"} /\ AllSentencesClosed(text))
                => /\ pc[i] # "yield102"
                   /\ partial_sentence[i] = <<>>
                   /\ Len(emitted[i]) = Len(expected)
                   /\ \A n \in 1..Len(expected) : IsTrimOf(emitted[i][n], expected[n])

\* the one fragment 'aa. a? ' has given 'aa.' and 'a?' and the stream has ended
C14_Witness ==
    /\ pc[1] = "done"
    /\ seen[1] = <<DeltaLine(<<"a", "a", ".", SP, "a", "?", SP>>)>>
    /\ emitted[1] = << <<"a", "a", ".">>, <<"a", "?">> >>
    /\ partial_sentence[1] = <<>>

\* invocation i has read all its lines and ended normally
Exhausted(i) == pc[i] = "done" /\ exitpath[i] = "exhausted"

(***************************************************************************)
(* C15: a stream that was fed a text in several fragments emits, flush     *)
(* included, the same sentences as a stream fed the whole text as one      *)
(* fragment.  Violated: a fragment is searched for '[DONE]' as a whole, so *)
(* 'a' then '[DONE]' emits 'a' while 'a[DONE]' in one fragment is skipped. *)
(***************************************************************************)
C15_FragmentationIndependent ==
    \A i, j \in Calls :
        (Exhausted(i) /\ Exhausted(j) /\ seen[j] = <<DeltaLine(Received(seen[i]))>>)
            => emitted[i] = emitted[j]

\* value is 'data: ' followed by a record whose choices[0].delta.content is a text
IsDeltaLine(value) ==
    /\ Len(value) >= 4
    /\ SubSeq(value, 1, 3) = <<DATA, SP, OPEN_DELTA>>
    /\ Last(value) = CLOSE
    /\ \A n \in 4..(Len(value) - 1) : value[n] \notin {OPEN_DELTA, OPEN_MSG, CLOSE}

(***************************************************************************)
(* C17: reading a line 'data: ' + record with delta content t appends      *)
(* exactly t to the pending buffer, also when t holds 'data:' or '[DONE]'. *)
(* Violated: re.sub takes every 'data:' out of the line, and a line that   *)
(* holds '[DONE]' anywhere is skipped.                                     *)
(***************************************************************************)
C17_ContentUnaltered ==
    [][\A i \in Calls :
          (seen'[i] # seen[i] /\ IsDeltaLine(Last(seen'[i])))
              => partial_sentence'[i] = partial_sentence[i] \o DeltaText(Last(seen'[i]))]_vars

\* value is 'data: ' and a JSON record without a content text: a null or
\* absent content, or a missing step on the way to it
Ignorable(value) ==
    /\ Len(value) = 3
    /\ SubSeq(value, 1, 2) = <<DATA, SP>>
    /\ value[3] \in {NULL_DELTA, ROLE_DELTA, EMPTY_CHOICES, NULL_CHOICES, NO_CHOICES}

(***************************************************************************)
(* C16: reading a line that parses as JSON but gives no content text emits *)
(* nothing, leaves the pending buffer as it is and leaves the stream at    *)
(* the head of its loop, ready for the next line.                          *)
(***************************************************************************)
C16_IgnorableFrameSkipped ==
    [][\A i \in Calls :
          (seen'[i] # seen[i] /\ Ignorable(Last(seen'[i])))
              => /\ partial_sentence'[i] = partial_sentence[i]
                 /\ emitted'[i] = emitted[i]
                 /\ pc'[i] = "loop"
                 /\ raised'[i] = raised[i]]_vars

\* 'a', then a record whose choices is null, then '?': the buffer holds 'a?'
C16_Witness ==
    /\ pc[1] = "loop"
    /\ ~closed[1]
    /\ Len(seen[1]) = 3
    /\ seen[1][1] = DeltaLine(<<"a">>)
    /\ seen[1][2] = <<DATA, SP, NULL_CHOICES>>
    /\ seen[1][3] = DeltaLine(<<"?">>)
    /\ partial_sentence[1] = <<"a", "?">>
    /\ emitted[1] = <<>>

(***************************************************************************)
(* C18: every sentence a stream yields, the final flushed one included, is *)
(* a non-empty string.  Violated: line 101 tests the buffer before it is   *)
(* stripped, so a buffer of whitespace is flushed as ''.                   *)
(***************************************************************************)
C18_SentencesNonEmpty ==
    \A i \in Calls :
        stream[i] => \A n \in 1..Len(emitted[i]) : emitted[i][n] # <<>>

\* the number of system messages in a message list
SystemMessages(messages) ==
    Cardinality({n \in 1..Len(messages) : messages[n].role = "system"})

(***************************************************************************)
(* C19: the messages each call transmits hold exactly one system message,  *)
(* at index 0, however many calls have used the same history list.         *)
(* Violated: every call inserts another one into the caller's list.        *)
(***************************************************************************)
C19_OneSystemMessagePerRequest ==
    \A i \in Calls :
        sent[i] # <<>>
            => /\ sent[i][1].role = "system"
               /\ SystemMessages(sent[i]) = 1

(***************************************************************************)
(* C20: once the consumer has closed the generator no further line is      *)
(* read, no further sentence is yielded and no error is raised.  Violated: *)
(* the bare except of line 99 catches the GeneratorExit thrown in at line  *)
(* 97 and the loop goes on.                                                *)
(***************************************************************************)
C20_CloseStopsAtOnce ==
    [][\A i \in Calls :
          closed[i] => /\ seen'[i] = seen[i]
                       /\ emitted'[i] = emitted[i]
                       /\ raised'[i] = raised[i]]_vars

====
